---------------------------- MODULE Spec2Model ----------------------------
(***************************************************************************)
(* Model of parte4/backend/api_server.py: a read-only Flask API over two   *)
(* SQLite tables (operadoras, despesas) with a single-slot in-memory cache *)
(* in front of the statistics aggregation.                                 *)
(*                                                                         *)
(* Text values (cnpj, razao_social, query parameters) are sequences of     *)
(* one-character strings so that str.strip, int() and SQL LIKE can be      *)
(* computed character by character.  Monetary amounts (REAL valor) are     *)
(* whole units; the two rounded summary figures are kept in hundredths.    *)
(***************************************************************************)
EXTENDS Integers, Sequences, FiniteSets, TLC

VARIABLES
    operadoras,        \* table operadoras, rows in storage order
    despesas,          \* table despesas, rows in storage (id) order
    cache_estatisticas,\* the module-level dict: [dados, timestamp]
    clock,             \* what datetime.now() returns, in seconds
    ticks,             \* number of clock advances so far
    nreq,              \* number of /api/estatisticas requests started
    pc,                \* position of each statistics request in the handler
    agora,             \* local of each statistics request
    total_despesas,    \* local of each statistics request
    media_despesas,    \* local of each statistics request
    top_operadoras,    \* local of each statistics request
    distribuicao_uf,   \* local of each statistics request
    resposta,          \* response of each statistics request
    hist,              \* per request history: queries issued, cache writes, ...
    tsBy,              \* history: the request whose agora is in the timestamp slot
    pedido,            \* last request served by a store-only route
    retorno,           \* its response
    consultas          \* the SQL statements it issued, in order

vars == <<operadoras, despesas, cache_estatisticas, clock, ticks, nreq, pc,
          agora, total_despesas, media_despesas, top_operadoras,
          distribuicao_uf, resposta, hist, tsBy, pedido, retorno, consultas>>

storeVars == <<operadoras, despesas>>

statVars == <<cache_estatisticas, clock, ticks, nreq, pc, agora,
              total_despesas, media_despesas, top_operadoras,
              distribuicao_uf, resposta, hist, tsBy>>

routeVars == <<pedido, retorno, consultas>>

\* Python's None, and a value that is present: None is the empty tuple and a
\* present value v the one-element tuple <<v>>.
None == <<>>

Some(v) == <<v>>

(***************************************************************************)
(* Bounds of the model.                                                    *)
(***************************************************************************)
MaxOps == 3        \* operator rows a store of the listing/lookup runs may hold
MaxDesp == 3       \* expense rows a store of the lookup runs may hold
NumStatOps == 6    \* operator rows of the stores of the aggregation runs
MaxReq == 3        \* statistics requests per run
MaxThreads == 2    \* statistics requests inside the handler at one time
MaxTicks == 2      \* clock advances per run

(***************************************************************************)
(* Text.                                                                   *)
(***************************************************************************)
Digits == <<"0", "1", "2", "3", "4", "5", "6", "7", "8", "9">>

\* The characters used, in code point order (binary collation).
Alphabet == <<" ", "%", "+", "-">> \o Digits \o <<"A", "B", "_", "a", "b", "x">>

CharOrd(c) == CHOOSE i \in 1..Len(Alphabet) : Alphabet[i] = c

Whitespace == {" "}

RECURSIVE LStrip(_)
LStrip(s) ==
    IF s # <<>> /\ Head(s) \in Whitespace THEN LStrip(Tail(s)) ELSE s

RECURSIVE RStrip(_)
RStrip(s) ==
    IF s # <<>> /\ s[Len(s)] \in Whitespace
    THEN RStrip(SubSeq(s, 1, Len(s) - 1))
    ELSE s

\* str.strip()
Strip(s) == RStrip(LStrip(s))

IsDigit(c) == \E i \in 1..Len(Digits) : Digits[i] = c

DigitVal(c) == (CHOOSE i \in 1..Len(Digits) : Digits[i] = c) - 1

RECURSIVE DecVal(_)
DecVal(s) ==
    IF s = <<>> THEN 0
    ELSE 10 * DecVal(SubSeq(s, 1, Len(s) - 1)) + DigitVal(s[Len(s)])

\* The outcome of int(x) that raises ValueError (a result n is Some(n)).
ValueError == <<>>

\* int(x) of a str: surrounding whitespace dropped, an optional sign, then
\* one or more decimal digits; anything else raises ValueError.
PyInt(raw) ==
    LET s == Strip(raw)
        signed == s # <<>> /\ Head(s) \in {"+", "-"}
        body == IF signed THEN Tail(s) ELSE s
    IN  IF body = <<>> \/ \E i \in 1..Len(body) : ~IsDigit(body[i])
        THEN ValueError
        ELSE Some(IF signed /\ Head(s) = "-" THEN 0 - DecVal(body) ELSE DecVal(body))

\* request.args.get(name, default) followed by int(): int(default) when the
\* parameter is absent, int(text) otherwise.
ArgInt(raw, default) == IF raw = None THEN Some(default) ELSE PyInt(raw[1])

\* ASCII case folding, as LIKE does.
Lower(c) == IF c = "A" THEN "a" ELSE IF c = "B" THEN "b" ELSE c

\* SQLite "text LIKE pattern": % matches any run of characters, _ matches
\* any one character, letters match without regard to ASCII case.
RECURSIVE Like(_, _)
Like(text, pattern) ==
    IF pattern = <<>> THEN text = <<>>
    ELSE IF Head(pattern) = "%"
         THEN Like(text, Tail(pattern))
              \/ (text # <<>> /\ Like(Tail(text), pattern))
         ELSE /\ text # <<>>
              /\ \/ Head(pattern) = "_"
                 \/ Lower(Head(pattern)) = Lower(Head(text))
              /\ Like(Tail(text), Tail(pattern))

\* Binary (memcmp) comparison of two texts: a < b.
RECURSIVE TextLess(_, _)
TextLess(a, b) ==
    IF b = <<>> THEN FALSE
    ELSE IF a = <<>> THEN TRUE
    ELSE IF Head(a) = Head(b) THEN TextLess(Tail(a), Tail(b))
    ELSE CharOrd(Head(a)) < CharOrd(Head(b))

(***************************************************************************)
(* Sequences.                                                              *)
(***************************************************************************)
\* The ORDER BY clauses of the queries, as strict orders on rows.
Before(clause, a, b) ==
    CASE clause = "razao_social" -> TextLess(a.razao_social, b.razao_social)
      [] clause = "ano DESC, trimestre DESC" ->
            \/ a.ano > b.ano
            \/ (a.ano = b.ano /\ a.trimestre > b.trimestre)
      [] clause = "total_despesas DESC" -> a.total_despesas > b.total_despesas

\* row put into an ordered sequence, after the rows it does not precede.
InsertBy(sorted, row, clause) ==
    LET at == IF \E i \in 1..Len(sorted) : Before(clause, row, sorted[i])
              THEN CHOOSE i \in 1..Len(sorted) :
                      /\ Before(clause, row, sorted[i])
                      /\ \A j \in 1..(i - 1) : ~Before(clause, row, sorted[j])
              ELSE Len(sorted) + 1
    IN  SubSeq(sorted, 1, at - 1) \o <<row>> \o SubSeq(sorted, at, Len(sorted))

\* ORDER BY: a stable sort, so rows that compare equal stay in the order in
\* which they were scanned.
RECURSIVE OrderBy(_, _)
OrderBy(rows, clause) ==
    IF rows = <<>> THEN <<>>
    ELSE InsertBy(OrderBy(SubSeq(rows, 1, Len(rows) - 1), clause),
                  rows[Len(rows)], clause)

Reverse(rows) == [i \in 1..Len(rows) |-> rows[Len(rows) + 1 - i]]

\* LIMIT n OFFSET k of SQLite: a negative limit means no limit, a negative
\* offset means none.
LimitOffset(rows, n, k) ==
    LET from == IF k < 0 THEN 0 ELSE k
        upto == IF n < 0 THEN Len(rows)
                ELSE IF from + n > Len(rows) THEN Len(rows) ELSE from + n
    IN  SubSeq(rows, from + 1, upto)

RECURSIVE SumValor(_)
SumValor(rows) ==
    IF rows = <<>> THEN 0 ELSE Head(rows).valor + SumValor(Tail(rows))

\* Python's a // b (floor division), b # 0.
FloorDiv(a, b) == IF b > 0 THEN a \div b ELSE (0 - a) \div (0 - b)

(***************************************************************************)
(* Program constants.                                                      *)
(***************************************************************************)
Timeout == 300         \* cache_estatisticas['timeout']
DefaultPage == 1       \* request.args.get('page', 1)
DefaultLimit == 10     \* request.args.get('limit', 10)
MaxLimit == 100        \* min(..., 100)
TopN == 5              \* LIMIT 5

(***************************************************************************)
(* The store.  A row of operadoras carries the columns the routes compare  *)
(* or group by (cnpj, razao_social, uf); registro_ans and modalidade are   *)
(* only copied through and are left out.  A row of despesas carries id,    *)
(* cnpj, trimestre, ano, valor.  SQLite does not enforce the declared      *)
(* foreign key by default, so an expense row may name a cnpj with no       *)
(* operator row.                                                           *)
(***************************************************************************)
CnpjOf(i) == <<Digits[((i \div 10) % 10) + 1], Digits[(i % 10) + 1]>>

Names == << <<"b", "_">>, <<"A", "x">>, <<"a", "b">> >>

Ufs == <<"SP", "RJ">>

Operadora(i) ==
    [cnpj |-> CnpjOf(i),
     razao_social |-> Names[((i - 1) % Len(Names)) + 1],
     uf |-> Ufs[((i - 1) % Len(Ufs)) + 1]]

RECURSIVE OperadoraRows(_)
\* The rows Operadora(i), i in S, stored in increasing i.
OperadoraRows(S) ==
    IF S = {} THEN <<>>
    ELSE LET m == CHOOSE x \in S : \A y \in S : y <= x
         IN  Append(OperadoraRows(S \ {m}), Operadora(m))

OperadorasStores == {OperadoraRows(S) : S \in SUBSET (1..MaxOps)}

Periods == { [trimestre |-> 1, ano |-> 2024],
             [trimestre |-> 3, ano |-> 2024],
             [trimestre |-> 2, ano |-> 2023] }

\* Expense rows of the lookup runs: owner 1 or 2 (either may be missing from
\* operadoras), one of three fiscal periods, repeated periods allowed.
DespesaKinds ==
    { [cnpj |-> CnpjOf(o), trimestre |-> p.trimestre, ano |-> p.ano, valor |-> 1] :
        o \in {1, 2}, p \in Periods }

WithIds(rows) ==
    [i \in 1..Len(rows) |->
        [id |-> i, cnpj |-> rows[i].cnpj, trimestre |-> rows[i].trimestre,
         ano |-> rows[i].ano, valor |-> rows[i].valor]]

DespesasStores ==
    UNION { {WithIds(f) : f \in [1..n -> DespesaKinds]} : n \in 0..MaxDesp }

(***************************************************************************)
(* GET /api/operadoras                                                     *)
(***************************************************************************)
\* Texts a client may send as page and as limit (None: parameter absent).
PageArgs ==
    {None} \cup { Some(t) : t \in { <<"1">>, <<"2">>, <<"3">>, <<"a">> } }

LimitArgs ==
    {None} \cup
    { Some(t) : t \in { <<"1">>, <<"2">>, <<" ", "2">>, <<"1", "5", "0">>,
                        <<"0">>, <<"a">> } }

\* Texts a client may send as busca (None: parameter absent).
BuscaArgs ==
    {None} \cup
    { Some(t) : t \in { <<" ">>, <<" ", "a", " ">>, <<"b", "_">>, <<"_">>,
                        <<"%">>, <<"1">> } }

\* where_clause with its parameters bound, applied to one row.
WhereClause(row, busca) ==
    \/ busca = <<>>
    \/ Like(row.razao_social, <<"%">> \o busca \o <<"%">>)
    \/ Like(row.cnpj, <<"%">> \o busca \o <<"%">>)

RECURSIVE Filtered(_, _)
\* FROM operadoras {where_clause}, in storage order.
Filtered(rows, busca) ==
    IF rows = <<>> THEN <<>>
    ELSE IF WhereClause(Head(rows), busca)
         THEN <<Head(rows)>> \o Filtered(Tail(rows), busca)
         ELSE Filtered(Tail(rows), busca)

\* The slice query: ... ORDER BY razao_social LIMIT ? OFFSET ?
SliceQuery(busca, limit, offset) ==
    LimitOffset(OrderBy(Filtered(operadoras, busca), "razao_social"), limit, offset)

\* The count query: SELECT COUNT(*) FROM operadoras {where_clause}
CountQuery(busca) == Len(Filtered(operadoras, busca))

\* limit = min(int(...), 100)
EffectiveLimit(limit_int) == IF limit_int < MaxLimit THEN limit_int ELSE MaxLimit

TotalPagesFloor(total, limit) == FloorDiv(total, limit)

\* (total + limit - 1) // limit
TotalPages(total, limit) == FloorDiv(total + limit - 1, limit)

ServerError == [status |-> 500, body |-> [erro |-> "Erro interno do servidor"]]

\* What the handler returns and the statements it issued on the way.
ListarOperadorasOutcome(page_raw, limit_raw, busca_raw) ==
    LET page_int == ArgInt(page_raw, DefaultPage)
        limit_int == ArgInt(limit_raw, DefaultLimit)
    IN  IF page_int = ValueError \/ limit_int = ValueError
        THEN [retorno |-> ServerError, consultas |-> <<>>]
        ELSE
        LET page == page_int[1]
            limit == EffectiveLimit(limit_int[1])
            offset == (page - 1) * limit
            busca == Strip(IF busca_raw = None THEN <<>> ELSE busca_raw[1])
            data == SliceQuery(busca, limit, offset)
            total == CountQuery(busca)
        IN  IF limit = 0
            THEN [retorno |-> ServerError, consultas |-> <<"slice", "count">>]
            ELSE [retorno |->
                    [status |-> 200,
                     body |-> [data |-> data, page |-> page, limit |-> limit,
                               total |-> total,
                               total_pages |-> TotalPages(total, limit)]],
                  consultas |-> <<"slice", "count">>]

listar_operadoras ==
    \E page_raw \in PageArgs, limit_raw \in LimitArgs, busca_raw \in BuscaArgs :
        LET out == ListarOperadorasOutcome(page_raw, limit_raw, busca_raw)
        IN  /\ pedido' = [rota |-> "listar_operadoras", page |-> page_raw,
                          limit |-> limit_raw, busca |-> busca_raw]
            /\ retorno' = out.retorno
            /\ consultas' = out.consultas
            /\ UNCHANGED <<storeVars, statVars>>

(***************************************************************************)
(* GET /api/operadoras/<cnpj> and GET /api/operadoras/<cnpj>/despesas      *)
(***************************************************************************)
\* Path values a client may send: every cnpj a store can hold and one more.
CnpjArgs == {CnpjOf(i) : i \in 1..(MaxOps + 1)}

NotFoundAsEmpty == [status |-> 200, body |-> None]

NotFound == [status |-> 404, body |-> [erro |-> "Operadora nao encontrada"]]

\* SELECT ... FROM operadoras WHERE cnpj = ?  then fetchone()
OperadoraByCnpj(cnpj) ==
    IF \E i \in 1..Len(operadoras) : operadoras[i].cnpj = cnpj
    THEN Some(operadoras[CHOOSE i \in 1..Len(operadoras) : operadoras[i].cnpj = cnpj])
    ELSE None

detalhes_operadora ==
    \E cnpj \in CnpjArgs :
        LET operadora == OperadoraByCnpj(cnpj)
        IN  /\ pedido' = [rota |-> "detalhes_operadora", cnpj |-> cnpj]
            /\ consultas' = <<"operadora">>
            /\ retorno' = IF operadora = None THEN NotFound
                          ELSE [status |-> 200, body |-> operadora[1]]
            /\ UNCHANGED <<storeVars, statVars>>

RECURSIVE DespesasOf(_, _)
\* SELECT trimestre, ano, valor FROM despesas WHERE cnpj = ?, in id order.
DespesasOf(rows, cnpj) ==
    IF rows = <<>> THEN <<>>
    ELSE IF Head(rows).cnpj = cnpj
         THEN <<[trimestre |-> Head(rows).trimestre, ano |-> Head(rows).ano,
                 valor |-> Head(rows).valor]>> \o DespesasOf(Tail(rows), cnpj)
         ELSE DespesasOf(Tail(rows), cnpj)

HistoryQueryUnordered(cnpj) == DespesasOf(despesas, cnpj)

\* The history query: ... WHERE cnpj = ? ORDER BY ano DESC, trimestre DESC
HistoryQuery(cnpj) == OrderBy(DespesasOf(despesas, cnpj), "ano DESC, trimestre DESC")

historico_despesas ==
    \E cnpj \in CnpjArgs :
        LET operadora == OperadoraByCnpj(cnpj)
        IN  /\ pedido' = [rota |-> "historico_despesas", cnpj |-> cnpj]
            /\ IF operadora = None
               THEN /\ consultas' = <<"operadora">>
                    /\ retorno' = NotFound
               ELSE /\ consultas' = <<"operadora", "despesas">>
                    /\ retorno' =
                         [status |-> 200,
                          body |-> [cnpj |-> cnpj,
                                    razao_social |-> operadora[1].razao_social,
                                    despesas |-> HistoryQuery(cnpj)]]
            /\ UNCHANGED <<storeVars, statVars>>


(***************************************************************************)
(* GET /api/estatisticas                                                   *)
(*                                                                         *)
(* Flask's development server handles each request in a thread of its own, *)
(* so the handler is modelled statement by statement: every read or write  *)
(* of the shared dict cache_estatisticas and every store query is a step   *)
(* of its own, and steps of different requests interleave.  A resultado    *)
(* dict is identified by the request that built it: dados holds Some(r)    *)
(* for the dict built by request r, and Resultado(r) is its content.       *)
(***************************************************************************)
Reqs == 1..MaxReq

\* Clock advances: one second, one second short of the timeout, the timeout.
TickSteps == {1, Timeout - 1, Timeout}

Tick ==
    /\ ticks < MaxTicks
    /\ \E d \in TickSteps : clock' = clock + d
    /\ ticks' = ticks + 1
    /\ UNCHANGED <<storeVars, routeVars, cache_estatisticas, nreq, pc, agora,
                   total_despesas, media_despesas, top_operadoras,
                   distribuicao_uf, resposta, hist, tsBy>>

\* SELECT SUM(valor) FROM despesas, then "or 0" (NULL when there is no row).
SumQuery == IF despesas = <<>> THEN 0 ELSE SumValor(despesas)

\* SELECT AVG(valor) FROM despesas, then "or 0": the exact quotient as a
\* fraction num / den.
AvgQuery ==
    IF despesas = <<>> THEN [num |-> 0, den |-> 1]
    ELSE [num |-> SumValor(despesas), den |-> Len(despesas)]

\* round(num / den, 2) in hundredths, ties to the even hundredth (the error
\* of the binary representation of the quotient is not modelled).
Round2(num, den) ==
    LET q == (100 * num) \div den
        rem == (100 * num) % den
    IN  IF 2 * rem > den \/ (2 * rem = den /\ q % 2 = 1) THEN q + 1 ELSE q

RECURSIVE JoinedOf(_, _)
\* The rows of despesas joined to one operator (d.cnpj = o.cnpj).
JoinedOf(rows, cnpj) ==
    IF rows = <<>> THEN <<>>
    ELSE IF Head(rows).cnpj = cnpj
         THEN <<Head(rows)>> \o JoinedOf(Tail(rows), cnpj)
         ELSE JoinedOf(Tail(rows), cnpj)

RECURSIVE GroupByOperadora(_)
\* FROM operadoras o INNER JOIN despesas d ... GROUP BY o.cnpj,
\* o.razao_social with SUM(d.valor): one row per operator that has at least
\* one joined expense row, in the order the operators are scanned.
GroupByOperadora(scan) ==
    IF scan = <<>> THEN <<>>
    ELSE LET o == Head(scan)
             joined == JoinedOf(despesas, o.cnpj)
         IN  IF joined = <<>> THEN GroupByOperadora(Tail(scan))
             ELSE <<[cnpj |-> o.cnpj, razao_social |-> o.razao_social,
                     total_despesas |-> SumValor(joined)]>>
                  \o GroupByOperadora(Tail(scan))

TopQueryUnordered(scan) == LimitOffset(GroupByOperadora(scan), TopN, 0)

\* The top-5 query: ... ORDER BY total_despesas DESC LIMIT 5
TopQuery(scan) ==
    LimitOffset(OrderBy(GroupByOperadora(scan), "total_despesas DESC"), TopN, 0)

RECURSIVE UfsOf(_)
\* The uf values of the grouped operators, in order of first appearance.
UfsOf(groups) ==
    IF groups = <<>> THEN <<>>
    ELSE LET rest == UfsOf(SubSeq(groups, 1, Len(groups) - 1))
             uf == groups[Len(groups)].uf
         IN  IF \E i \in 1..Len(rest) : rest[i] = uf THEN rest ELSE Append(rest, uf)

RECURSIVE WithUf(_)
\* The operators of scan that have a joined expense row, with uf and sum.
WithUf(scan) ==
    IF scan = <<>> THEN <<>>
    ELSE LET o == Head(scan)
             joined == JoinedOf(despesas, o.cnpj)
         IN  IF joined = <<>> THEN WithUf(Tail(scan))
             ELSE <<[cnpj |-> o.cnpj, uf |-> o.uf, valor |-> SumValor(joined)]>>
                  \o WithUf(Tail(scan))

RECURSIVE OfUf(_, _)
OfUf(groups, uf) ==
    IF groups = <<>> THEN <<>>
    ELSE IF Head(groups).uf = uf
         THEN <<Head(groups)>> \o OfUf(Tail(groups), uf)
         ELSE OfUf(Tail(groups), uf)

\* The distribution query: ... GROUP BY o.uf ORDER BY total_despesas DESC
UfQuery(scan) ==
    LET groups == WithUf(scan)
        ufs == UfsOf(groups)
    IN  OrderBy([i \in 1..Len(ufs) |->
                    [uf |-> ufs[i],
                     num_operadoras |-> Len(OfUf(groups, ufs[i])),
                     total_despesas |-> SumValor(OfUf(groups, ufs[i]))]],
                "total_despesas DESC")

\* The order in which a query visits operadoras is the query planner's: rows
\* of equal sort key may come out in storage order or in its reverse.
ScanOrders == {operadoras, Reverse(operadoras)}

\* The dict built by request r (total and average in hundredths).
Resultado(r) ==
    [resumo |-> [total_despesas |-> 100 * total_despesas[r],
                 media_despesas |-> Round2(media_despesas[r].num, media_despesas[r].den),
                 num_operadoras |-> Len(top_operadoras[r])],
     top_operadoras |-> top_operadoras[r],
     distribuicao_uf |-> distribuicao_uf[r]]

\* agora = datetime.now()
Begin(r) ==
    /\ pc[r] = "idle"
    /\ r = nreq + 1
    /\ nreq' = r
    /\ agora' = [agora EXCEPT ![r] = clock]
    /\ hist' = [hist EXCEPT ![r] = [pre |-> cache_estatisticas, nq |-> 0,
                                    wrote |-> {}, readAt |-> None]]
    /\ pc' = [pc EXCEPT ![r] = "check_dados"]
    /\ UNCHANGED <<storeVars, routeVars, cache_estatisticas, clock, ticks,
                   total_despesas, media_despesas, top_operadoras,
                   distribuicao_uf, resposta, tsBy>>

\* if cache_estatisticas['dados'] is not None and ...
CheckDados(r) ==
    /\ pc[r] = "check_dados"
    /\ pc' = [pc EXCEPT ![r] = IF cache_estatisticas.dados # None
                               THEN "check_timestamp" ELSE "total"]
    /\ UNCHANGED <<storeVars, routeVars, cache_estatisticas, clock, ticks, nreq,
                   agora, total_despesas, media_despesas, top_operadoras,
                   distribuicao_uf, resposta, hist, tsBy>>

\* ... cache_estatisticas['timestamp'] is not None
CheckTimestamp(r) ==
    /\ pc[r] = "check_timestamp"
    /\ pc' = [pc EXCEPT ![r] = IF cache_estatisticas.timestamp # None
                               THEN "elapsed" ELSE "total"]
    /\ UNCHANGED <<storeVars, routeVars, cache_estatisticas, clock, ticks, nreq,
                   agora, total_despesas, media_despesas, top_operadoras,
                   distribuicao_uf, resposta, hist, tsBy>>

FreshAtOrBelow(tempo_decorrido) == tempo_decorrido <= Timeout

\* tempo_decorrido < cache_estatisticas['timeout']
Fresh(tempo_decorrido) == tempo_decorrido < Timeout

\* tempo_decorrido = (agora - cache_estatisticas['timestamp']).total_seconds()
\* and the comparison with the timeout
Elapsed(r) ==
    /\ pc[r] = "elapsed"
    /\ LET tempo_decorrido == agora[r] - cache_estatisticas.timestamp[1]
       IN  pc' = [pc EXCEPT ![r] = IF Fresh(tempo_decorrido)
                                   THEN "use_cache" ELSE "total"]
    /\ UNCHANGED <<storeVars, routeVars, cache_estatisticas, clock, ticks, nreq,
                   agora, total_despesas, media_despesas, top_operadoras,
                   distribuicao_uf, resposta, hist, tsBy>>

\* return jsonify(cache_estatisticas['dados'])
UseCache(r) ==
    /\ pc[r] = "use_cache"
    /\ resposta' = [resposta EXCEPT ![r] =
                       [status |-> 200, body |-> cache_estatisticas.dados[1]]]
    /\ pc' = [pc EXCEPT ![r] = "done"]
    /\ UNCHANGED <<storeVars, routeVars, cache_estatisticas, clock, ticks, nreq,
                   agora, total_despesas, media_despesas, top_operadoras,
                   distribuicao_uf, hist, tsBy>>

\* History of a store query issued by request r.
Issued(r) ==
    [hist EXCEPT ![r].nq = @ + 1,
                 ![r].readAt = IF @ = None THEN Some(clock) ELSE @]

QueryTotalStampingFirst(r) ==
    /\ pc[r] = "total"
    /\ total_despesas' = [total_despesas EXCEPT ![r] = SumQuery]
    /\ cache_estatisticas' = [cache_estatisticas EXCEPT !.timestamp = Some(agora[r])]
    /\ tsBy' = Some(r)
    /\ hist' = [Issued(r) EXCEPT ![r].wrote = @ \cup {"timestamp"}]
    /\ pc' = [pc EXCEPT ![r] = "media"]
    /\ UNCHANGED <<storeVars, routeVars, clock, ticks, nreq, agora,
                   media_despesas, top_operadoras, distribuicao_uf, resposta>>

\* total_despesas = conn.execute('SELECT SUM(valor) ...').fetchone()['total'] or 0
QueryTotal(r) ==
    /\ pc[r] = "total"
    /\ total_despesas' = [total_despesas EXCEPT ![r] = SumQuery]
    /\ hist' = Issued(r)
    /\ pc' = [pc EXCEPT ![r] = "media"]
    /\ UNCHANGED <<storeVars, routeVars, cache_estatisticas, clock, ticks, nreq,
                   agora, media_despesas, top_operadoras, distribuicao_uf,
                   resposta, tsBy>>

\* media_despesas = conn.execute('SELECT AVG(valor) ...').fetchone()['media'] or 0
QueryMedia(r) ==
    /\ pc[r] = "media"
    /\ media_despesas' = [media_despesas EXCEPT ![r] = AvgQuery]
    /\ hist' = Issued(r)
    /\ pc' = [pc EXCEPT ![r] = "top"]
    /\ UNCHANGED <<storeVars, routeVars, cache_estatisticas, clock, ticks, nreq,
                   agora, total_despesas, top_operadoras, distribuicao_uf,
                   resposta, tsBy>>

\* top_operadoras = conn.execute(SELECT ... LIMIT 5).fetchall()
QueryTopOperadoras(r) ==
    /\ pc[r] = "top"
    /\ \E scan \in ScanOrders :
          top_operadoras' = [top_operadoras EXCEPT ![r] = TopQuery(scan)]
    /\ hist' = Issued(r)
    /\ pc' = [pc EXCEPT ![r] = "uf"]
    /\ UNCHANGED <<storeVars, routeVars, cache_estatisticas, clock, ticks, nreq,
                   agora, total_despesas, media_despesas, distribuicao_uf,
                   resposta, tsBy>>

\* distribuicao_uf = conn.execute(SELECT ... GROUP BY o.uf ...).fetchall()
QueryDistribuicaoUf(r) ==
    /\ pc[r] = "uf"
    /\ \E scan \in ScanOrders :
          distribuicao_uf' = [distribuicao_uf EXCEPT ![r] = UfQuery(scan)]
    /\ hist' = Issued(r)
    /\ pc' = [pc EXCEPT ![r] = "store_dados"]
    /\ UNCHANGED <<storeVars, routeVars, cache_estatisticas, clock, ticks, nreq,
                   agora, total_despesas, media_despesas, top_operadoras,
                   resposta, tsBy>>

\* One of the four conn.execute calls raises (sqlite3.Error): the exception
\* leaves the handler and the request is answered 500.
QueryRaises(r) ==
    /\ pc[r] \in {"total", "media", "top", "uf"}
    /\ hist' = Issued(r)
    /\ resposta' = [resposta EXCEPT ![r] = ServerError]
    /\ pc' = [pc EXCEPT ![r] = "done"]
    /\ UNCHANGED <<storeVars, routeVars, cache_estatisticas, clock, ticks, nreq,
                   agora, total_despesas, media_despesas, top_operadoras,
                   distribuicao_uf, tsBy>>

\* resultado = {...}; cache_estatisticas['dados'] = resultado
StoreDados(r) ==
    /\ pc[r] = "store_dados"
    /\ cache_estatisticas' = [cache_estatisticas EXCEPT !.dados = Some(r)]
    /\ hist' = [hist EXCEPT ![r].wrote = @ \cup {"dados"}]
    /\ pc' = [pc EXCEPT ![r] = "store_timestamp"]
    /\ UNCHANGED <<storeVars, routeVars, clock, ticks, nreq, agora,
                   total_despesas, media_despesas, top_operadoras,
                   distribuicao_uf, resposta, tsBy>>

\* cache_estatisticas['timestamp'] = agora; return jsonify(resultado)
StoreTimestamp(r) ==
    /\ pc[r] = "store_timestamp"
    /\ cache_estatisticas' = [cache_estatisticas EXCEPT !.timestamp = Some(agora[r])]
    /\ tsBy' = Some(r)
    /\ hist' = [hist EXCEPT ![r].wrote = @ \cup {"timestamp"}]
    /\ resposta' = [resposta EXCEPT ![r] = [status |-> 200, body |-> r]]
    /\ pc' = [pc EXCEPT ![r] = "done"]
    /\ UNCHANGED <<storeVars, routeVars, clock, ticks, nreq, agora,
                   total_despesas, media_despesas, top_operadoras,
                   distribuicao_uf>>

\* The steps of the handler after its first statement.
Continue(r) ==
    \/ CheckDados(r)
    \/ CheckTimestamp(r)
    \/ Elapsed(r)
    \/ UseCache(r)
    \/ QueryTotal(r)
    \/ QueryMedia(r)
    \/ QueryTopOperadoras(r)
    \/ QueryDistribuicaoUf(r)
    \/ StoreDados(r)
    \/ StoreTimestamp(r)

\* The requests inside the handler.
Active == {q \in Reqs : pc[q] \notin {"idle", "done"}}

\* No request is inside the handler.
Quiet == Active = {}

\* A thread is free to take a request.
ThreadFree == Cardinality(Active) < MaxThreads

(***************************************************************************)
(* Initial states and specifications.                                      *)
(***************************************************************************)
\* The module as loaded: the cache slot empty, no request started.
InitStat ==
    /\ cache_estatisticas = [dados |-> None, timestamp |-> None]
    /\ clock = 0
    /\ ticks = 0
    /\ nreq = 0
    /\ pc = [r \in Reqs |-> "idle"]
    /\ agora = [r \in Reqs |-> None]
    /\ total_despesas = [r \in Reqs |-> None]
    /\ media_despesas = [r \in Reqs |-> None]
    /\ top_operadoras = [r \in Reqs |-> None]
    /\ distribuicao_uf = [r \in Reqs |-> None]
    /\ resposta = [r \in Reqs |-> None]
    /\ hist = [r \in Reqs |-> None]
    /\ tsBy = None

InitRoute ==
    /\ pedido = [rota |-> "nenhuma"]
    /\ retorno = None
    /\ consultas = <<>>

\* The store the server runs over in the cache runs.
ServerDespesas ==
    WithIds(<< [cnpj |-> CnpjOf(1), trimestre |-> 1, ano |-> 2024, valor |-> 1],
               [cnpj |-> CnpjOf(2), trimestre |-> 1, ano |-> 2024, valor |-> 2],
               [cnpj |-> CnpjOf(1), trimestre |-> 2, ano |-> 2024, valor |-> 2] >>)

InitServer ==
    /\ operadoras = OperadoraRows(1..2)
    /\ despesas = ServerDespesas
    /\ InitStat
    /\ InitRoute

\* Concurrent statistics requests, the clock advancing, queries that may raise.
Next ==
    \/ Tick
    \/ \E r \in Reqs : (ThreadFree /\ Begin(r)) \/ Continue(r) \/ QueryRaises(r)

Spec == InitServer /\ [][Next]_vars

\* Statistics requests one after the other: a request starts only when no
\* other is inside the handler.
NextSeq ==
    \/ Tick
    \/ \E r \in Reqs : (Quiet /\ Begin(r)) \/ Continue(r) \/ QueryRaises(r)

SpecSeq == InitServer /\ [][NextSeq]_vars

\* Expense rows one operator may have in the aggregation runs.
ExpenseChoices == { <<>>, <<1>>, <<1, 1>>, <<2, 1>> }

RECURSIVE ExpensesOf(_, _)
\* The expense rows of operators 1..n, operator i having the amounts give[i].
ExpensesOf(give, n) ==
    IF n = 0 THEN <<>>
    ELSE ExpensesOf(give, n - 1) \o
         [k \in 1..Len(give[n]) |->
             [cnpj |-> CnpjOf(n), trimestre |-> k, ano |-> 2024,
              valor |-> give[n][k]]]

\* The statistics route over every store of NumStatOps operators, each with
\* one of the ExpenseChoices.
InitStats ==
    /\ operadoras = OperadoraRows(1..NumStatOps)
    /\ \E give \in [1..NumStatOps -> ExpenseChoices] :
          despesas = WithIds(ExpensesOf(give, NumStatOps))
    /\ InitStat
    /\ InitRoute

\* A recomputation, and a second request served from the slot it filled.
NextStats == \E r \in {1, 2} : (Quiet /\ Begin(r)) \/ Continue(r)

SpecStats == InitStats /\ [][NextStats]_vars

\* The listing route over every store of at most MaxOps operators.
InitList ==
    /\ operadoras \in OperadorasStores
    /\ despesas = <<>>
    /\ InitStat
    /\ InitRoute

NextList == listar_operadoras

SpecList == InitList /\ [][NextList]_vars

\* The two lookup routes over every store of at most MaxOps operators and
\* at most MaxDesp expense rows.
InitLookup ==
    /\ operadoras \in OperadorasStores
    /\ despesas \in DespesasStores
    /\ InitStat
    /\ InitRoute

NextLookup == detalhes_operadora \/ historico_despesas

SpecLookup == InitLookup /\ [][NextLookup]_vars


(***************************************************************************)
(* Properties of the listing route.                                        *)
(***************************************************************************)
Listed == pedido.rota = "listar_operadoras"

\* The integer a well-formed page or limit text stands for, by the grammar
\* of decimal integers (independent of the handler's own parsing).
Absent(raw) == raw = None

Parseable(raw) == raw # None /\ PyInt(raw[1]) # ValueError

Requested(raw, default) == IF Absent(raw) THEN default ELSE PyInt(raw[1])[1]

\* page >= 1 and limit >= 1, given or defaulted.
ValidListing ==
    /\ Listed
    /\ Absent(pedido.page) \/ Parseable(pedido.page)
    /\ Absent(pedido.limit) \/ Parseable(pedido.limit)
    /\ Requested(pedido.page, DefaultPage) >= 1
    /\ Requested(pedido.limit, DefaultLimit) >= 1

Min(a, b) == IF a < b THEN a ELSE b

\* C4: for every store and every valid listing request the envelope has
\* len(data) <= effective limit = min(requested limit, 100), and total_pages
\* is ceil(total / limit) when total > 0 and 0 when total = 0 (so it is 0
\* only when total is 0 and at least 1 otherwise).
C4_Envelope ==
    ValidListing =>
        /\ retorno.status = 200
        /\ LET body == retorno.body
           IN  /\ body.limit = Min(Requested(pedido.limit, DefaultLimit), MaxLimit)
               /\ Len(body.data) <= body.limit
               /\ body.total > 0 =>
                    /\ body.total_pages * body.limit >= body.total
                    /\ (body.total_pages - 1) * body.limit < body.total
                    /\ body.total_pages >= 1
               /\ body.total = 0 => body.total_pages = 0
               /\ body.total_pages = 0 => body.total = 0

\* C4's case: a valid request whose total is not a multiple of the limit, on
\* a full page, with the limit capped in another reachable state.
C4_Witness ==
    /\ ValidListing
    /\ retorno.status = 200
    /\ retorno.body.total = 3
    /\ retorno.body.limit = 2
    /\ Len(retorno.body.data) = 2
    /\ retorno.body.total_pages = 2

RECURSIVE Contains(_, _)
\* text holds sub as a run of consecutive characters (letters compared
\* without regard to ASCII case, as the store compares them).
Contains(text, sub) ==
    \/ /\ Len(sub) <= Len(text)
       /\ \A i \in 1..Len(sub) : Lower(text[i]) = Lower(sub[i])
    \/ text # <<>> /\ Contains(Tail(text), sub)

Trimmed(raw) == IF raw = None THEN <<>> ELSE Strip(raw[1])

MatchesBusca(row, busca) ==
    Contains(row.razao_social, busca) \/ Contains(row.cnpj, busca)

MatchingCount(busca) ==
    Cardinality({i \in 1..Len(operadoras) : MatchesBusca(operadoras[i], busca)})

\* C5: total is the number of operator rows whose razao_social or cnpj
\* contains the trimmed busca text (all rows when it is empty), whatever
\* page and limit are; every row of data contains it; and a page beyond the
\* last one has empty data with total and total_pages still those of the
\* whole filtered set.
C5_FilterContains ==
    ValidListing =>
        LET body == retorno.body
            busca == Trimmed(pedido.busca)
        IN  /\ body.total = MatchingCount(busca)
            /\ \A i \in 1..Len(body.data) : MatchesBusca(body.data[i], busca)
            /\ (body.page - 1) * body.limit >= body.total => body.data = <<>>
            /\ body.total_pages = TotalPages(MatchingCount(busca), body.limit)

Offending(raw) == Absent(raw) \/ ~Parseable(raw)

WellFormed(raw, default) ==
    Offending(raw) \/ Requested(raw, default) >= 1

\* C7: a listing request whose page or limit is absent or is not a parseable
\* integer (the other parameter being absent, malformed or a valid value) is
\* answered 200, with page 1 and/or limit 10 in place of the offending
\* parameter.
C7_CoercedToDefaults ==
    ( /\ Listed
      /\ Offending(pedido.page) \/ Offending(pedido.limit)
      /\ WellFormed(pedido.page, DefaultPage)
      /\ WellFormed(pedido.limit, DefaultLimit) ) =>
        /\ retorno.status = 200
        /\ Offending(pedido.page) => retorno.body.page = DefaultPage
        /\ Offending(pedido.limit) => retorno.body.limit = DefaultLimit

(***************************************************************************)
(* Properties of the two lookup routes.                                    *)
(***************************************************************************)
Exists(cnpj) == \E i \in 1..Len(operadoras) : operadoras[i].cnpj = cnpj

ExpenseRowsOf(cnpj) == {i \in 1..Len(despesas) : despesas[i].cnpj = cnpj}

\* C6: a cnpj with no operator row gets 404 with an erro field from both
\* lookup routes, never a 200; the history route then stops after the
\* operator query, without issuing the expense query; an existing operator
\* with no expense rows gets 200 with an empty list.
C6_NotFound ==
    pedido.rota \in {"detalhes_operadora", "historico_despesas"} =>
        /\ ~Exists(pedido.cnpj) =>
              /\ retorno.status = 404
              /\ "erro" \in DOMAIN retorno.body
              /\ consultas = <<"operadora">>
        /\ Exists(pedido.cnpj) =>
              /\ retorno.status = 200
              /\ ( /\ pedido.rota = "historico_despesas"
                   /\ ExpenseRowsOf(pedido.cnpj) = {} ) =>
                     retorno.body.despesas = <<>>

\* C6's case: the history of a cnpj that has expense rows but no operator row.
C6_Witness ==
    /\ pedido.rota = "historico_despesas"
    /\ ~Exists(pedido.cnpj)
    /\ ExpenseRowsOf(pedido.cnpj) # {}
    /\ retorno.status = 404

Projected(i) ==
    [trimestre |-> despesas[i].trimestre, ano |-> despesas[i].ano,
     valor |-> despesas[i].valor]

\* C9: for an existing operator the history holds exactly that operator's
\* expense rows (each as often as it is stored, none of another operator),
\* by year descending and, within a year, quarter descending.
C9_History ==
    (pedido.rota = "historico_despesas" /\ Exists(pedido.cnpj)) =>
        LET got == retorno.body.despesas
            own == ExpenseRowsOf(pedido.cnpj)
        IN  /\ Len(got) = Cardinality(own)
            /\ \A i \in own :
                  Cardinality({j \in 1..Len(got) : got[j] = Projected(i)})
                    = Cardinality({k \in own : Projected(k) = Projected(i)})
            /\ \A j \in 1..(Len(got) - 1) :
                  \/ got[j].ano > got[j + 1].ano
                  \/ /\ got[j].ano = got[j + 1].ano
                     /\ got[j].trimestre >= got[j + 1].trimestre

\* C9's case: two records of the operator stored oldest first, among the
\* rows of another operator.
C9_Witness ==
    /\ pedido.rota = "historico_despesas"
    /\ Exists(pedido.cnpj)
    /\ Len(retorno.body.despesas) = 2
    /\ Len(despesas) = 3
    /\ retorno.body.despesas # DespesasOf(despesas, pedido.cnpj)

(***************************************************************************)
(* Properties of the statistics route.                                     *)
(***************************************************************************)
Done(r) == pc[r] = "done"

\* The cache slot as request r left it, in a run where requests do not
\* overlap: what the next request found, or the slot itself after the last.
After(r) == IF r = nreq THEN cache_estatisticas ELSE hist[r + 1].pre

\* The slot request r found was populated and younger than the timeout.
FoundFresh(r) ==
    /\ hist[r].pre.dados # None
    /\ hist[r].pre.timestamp # None
    /\ agora[r] - hist[r].pre.timestamp[1] < Timeout

\* C1: with requests one after the other and a clock that never goes back,
\* a request returns the stored dict, issues no query and leaves the slot as
\* it is exactly when the slot is populated and agora - timestamp < 300; in
\* every other case (slot empty, age >= 300) it queries the store and, the
\* queries having returned, stores its own new dict with its own agora.
C1_CacheContract ==
    \A r \in Reqs : Done(r) =>
        /\ FoundFresh(r) =>
              /\ resposta[r].status = 200
              /\ resposta[r].body = hist[r].pre.dados[1]
              /\ hist[r].nq = 0
              /\ After(r) = hist[r].pre
        /\ ~FoundFresh(r) =>
              /\ hist[r].nq >= 1
              /\ resposta[r].status = 200 =>
                    /\ hist[r].nq = 4
                    /\ resposta[r].body = r
                    /\ After(r) = [dados |-> Some(r), timestamp |-> Some(agora[r])]

\* C1's case: a request that found a populated slot aged exactly 300 s and
\* recomputed, after an earlier request was served from the slot.
C1_Witness ==
    \E r \in Reqs, q \in Reqs :
        /\ Done(r) /\ Done(q) /\ q < r
        /\ FoundFresh(q)
        /\ hist[r].pre.timestamp # None
        /\ agora[r] - hist[r].pre.timestamp[1] = Timeout
        /\ resposta[r].status = 200
        /\ resposta[r].body = r

\* C2: in every reachable state the slot's two fields are both unset or
\* were both written by the same recomputation.
C2_PairAtomic ==
    \/ cache_estatisticas.dados = None /\ cache_estatisticas.timestamp = None
    \/ /\ cache_estatisticas.dados # None
       /\ cache_estatisticas.timestamp # None
       /\ tsBy = cache_estatisticas.dados

\* C3: the dict a request is answered with was computed from store reads
\* made less than 300 s before the time at which the request checked the
\* cache (its agora).
C3_BoundedStaleness ==
    \A r \in Reqs : (Done(r) /\ resposta[r].status = 200) =>
        agora[r] - hist[resposta[r].body].readAt[1] < Timeout

RECURSIVE SumOver(_)
\* The sum of the amounts of the expense rows with index in S.
SumOver(S) ==
    IF S = {} THEN 0
    ELSE LET i == CHOOSE x \in S : TRUE
         IN  despesas[i].valor + SumOver(S \ {i})

\* The operators (by index) that have at least one expense row.
WithExpenses == {i \in 1..Len(operadoras) : ExpenseRowsOf(operadoras[i].cnpj) # {}}

OwnSum(i) == SumOver(ExpenseRowsOf(operadoras[i].cnpj))

\* Request r has run the top-5 query.
TopComputed(r) == pc[r] # "idle" /\ hist[r].nq >= 3

\* C8: the top_operadoras of a recomputation has min(5, number of operators
\* with an expense row) entries, each a different operator that has an
\* expense row together with the sum of that operator's own amounts, in
\* non-increasing order of the sum, and no operator left out has a larger
\* sum than one that is in.
C8_TopOperadoras ==
    \A r \in Reqs : TopComputed(r) =>
        LET top == top_operadoras[r]
            In(i) == \E k \in 1..Len(top) : top[k].cnpj = operadoras[i].cnpj
        IN  /\ Len(top) = Min(TopN, Cardinality(WithExpenses))
            /\ \A k \in 1..Len(top) :
                  \E i \in WithExpenses :
                      /\ top[k].cnpj = operadoras[i].cnpj
                      /\ top[k].razao_social = operadoras[i].razao_social
                      /\ top[k].total_despesas = OwnSum(i)
            /\ \A k \in 1..Len(top), j \in 1..Len(top) :
                  k # j => top[k].cnpj # top[j].cnpj
            /\ \A k \in 1..(Len(top) - 1) :
                  top[k].total_despesas >= top[k + 1].total_despesas
            /\ \A i \in WithExpenses : ~In(i) =>
                  \A k \in 1..Len(top) : OwnSum(i) <= top[k].total_despesas

\* C8's case: six operators with expense rows, sums that differ, five listed.
C8_Witness ==
    /\ Done(1)
    /\ Cardinality(WithExpenses) = 6
    /\ Len(top_operadoras[1]) = TopN
    /\ top_operadoras[1][1].total_despesas > top_operadoras[1][TopN].total_despesas
    /\ \E i \in 1..Len(operadoras) : OwnSum(i) = top_operadoras[1][1].total_despesas
                                      /\ i > 1

\* C10: a request whose query raises is answered 500 and has written
\* neither field of the slot, which is left as the request found it; a write
\* of either field comes only after all four queries returned; and the next
\* request queries the store again.
C10_FailedRecomputation ==
    \A r \in Reqs :
        /\ (pc[r] # "idle" /\ hist[r].wrote # {}) =>
              /\ hist[r].nq = 4
              /\ pc[r] \in {"store_timestamp", "done"}
        /\ (Done(r) /\ resposta[r].status = 500) =>
              /\ hist[r].wrote = {}
              /\ After(r) = hist[r].pre
              /\ ~FoundFresh(r)
              /\ (r < nreq /\ Done(r + 1)) => hist[r + 1].nq >= 1

\* C10's case: the slot populated and expired, a request whose third query
\* raises, and the next request recomputing.
C10_Witness ==
    \E r \in Reqs :
        /\ r < nreq
        /\ Done(r) /\ resposta[r].status = 500
        /\ hist[r].nq = 3
        /\ hist[r].pre.dados # None
        /\ Done(r + 1)
        /\ resposta[r + 1].status = 200
        /\ resposta[r + 1].body = r + 1

=============================================================================
